---- MODULE Spec2Model ----
(***************************************************************************)
(* Twitch community playlist maker (src/main.py): the track reference      *)
(* parser, the redemption classifier, the Spotify playlist builder (search *)
(* resolver, track list assembler, batch writer), the Twitch authorization *)
(* flow with its callback server, and main with the Twitch requests for    *)
(* the broadcaster, the reward and the pages of redemptions.               *)
(*                                                                         *)
(* A Python str is a sequence of one-character strings.  Python's None is  *)
(* the one-element tuple None, which is no text: a text holds only         *)
(* one-character strings.                                                  *)
(***************************************************************************)
EXTENDS Integers, Sequences, FiniteSets, TLC

VARIABLES
    pc,               \* position of the running function
    broadcaster_login,\* main: the channel name typed at the prompt, stripped
    oauth,            \* the TwitchOAuth object: its fields
    ticks,            \* start_oauth_flow: sleeps of the wait loop so far
    inflight,         \* callbacks suspended in their token exchange
    callbacks,        \* the callback requests handled, in arrival order
    success,          \* what start_oauth_flow returned (FALSE before that)
    tw_calls,         \* the Twitch requests issued, in call order
    rewards,          \* get_custom_rewards: the rewards returned
    song_reward,      \* the reward chosen
    status_i,         \* get_reward_redemptions: place of the status fetched
    after,            \* get_reward_redemptions: params['after'], or None
    summary,          \* create_spotify_playlist: the printed summary
    text,             \* parse_spotify_url: its argument
    parsed,           \* parse_spotify_url: its return value
    redemptions,      \* get_song_requests_from_twitch: the fetched records
    ri,               \* the classification loop: records consumed so far
    song_requests,    \* DirectRequests, in append order
    search_requests,  \* SearchRequests, in append order
    skipped,          \* the loop's two "skipping" diagnostics, in print order
    sp_calls,         \* the Spotify client calls issued, in call order
    search_results,   \* create_spotify_playlist: SearchResults
    si,               \* the search loop: SearchRequests consumed so far
    all_track_uris,   \* create_spotify_playlist: the assembled sequence
    bi,               \* the batch loop: 0-based offset of the next batch
    added_count,      \* create_spotify_playlist: URIs of successful batches
    failed_tracks     \* create_spotify_playlist: URIs of failed batches

vars == <<pc, broadcaster_login, oauth, ticks, inflight, callbacks, success,
          tw_calls, rewards, song_reward, status_i, after, summary,
          text, parsed, redemptions, ri, song_requests, search_requests,
          skipped, sp_calls, search_results, si, all_track_uris, bi,
          added_count, failed_tracks>>

parserVars == <<text, parsed>>
oauthVars == <<oauth, ticks, inflight, callbacks, success>>
twitchVars == <<broadcaster_login, oauthVars, tw_calls, rewards, song_reward,
                status_i, after>>
classifierVars == <<redemptions, ri, song_requests, search_requests, skipped>>
playlistVars == <<sp_calls, search_results, si, all_track_uris, bi,
                  added_count, failed_tracks>>

-----------------------------------------------------------------------------
(* Bounds of the model.                                                    *)

\* chunks concatenated into one input text of the parser
MaxChunks == 4
\* records in the fetched redemption list
MaxRedemptions == 3
\* chunks summed over the user inputs of one redemption list
MaxInputChunks == 2
\* DirectRequests and SearchRequests handed to create_spotify_playlist
MaxDirect == 2
MaxSearch == 2
\* DirectRequests of a long request list
MaxTracks == 201
\* requests that reach the callback server during one authorization
MaxCallbacks == 2
\* custom rewards of the channel
MaxRewards == 2
\* pages with a cursor, and records, over the pages of one fetch
MaxCursors == 1
MaxFetched == 1
\* callback requests, rewards, cursors and records over one run
MaxInputs == 4

-----------------------------------------------------------------------------
(* Characters and strings.                                                 *)

None == <<"None">>

\* None in a variable that otherwise holds a reward
NoReward == [id |-> None, title |-> None]

UpperCase == <<"A","B","C","D","E","F","G","H","I","J","K","L","M",
               "N","O","P","Q","R","S","T","U","V","W","X","Y","Z">>
LowerCase == <<"a","b","c","d","e","f","g","h","i","j","k","l","m",
               "n","o","p","q","r","s","t","u","v","w","x","y","z">>
Digits == <<"0","1","2","3","4","5","6","7","8","9">>

Range(s) == {s[i] : i \in DOMAIN s}

\* the character class [a-zA-Z0-9]
AlNum == Range(LowerCase) \cup Range(UpperCase) \cup Range(Digits)

\* what str.strip() removes
Whitespace == {" ", "\t", "\n", "\r", "\f"}

\* str.lower(), one character
LowerChar(c) ==
    IF c \in Range(UpperCase)
    THEN LowerCase[CHOOSE i \in DOMAIN UpperCase : UpperCase[i] = c]
    ELSE c

\* str.lower()
lower(s) == [i \in DOMAIN s |-> LowerChar(s[i])]

\* s[i:i+len(lit)] == lit, i 1-based
LitAt(s, i, lit) ==
    /\ i >= 1
    /\ i + Len(lit) - 1 <= Len(s)
    /\ SubSeq(s, i, i + Len(lit) - 1) = lit

\* lit in s
Contains(s, lit) == \E i \in 1..(Len(s) + 1) : LitAt(s, i, lit)

\* bool(s.strip()): something is left once the whitespace is removed
StripNonEmpty(s) == \E i \in DOMAIN s : s[i] \notin Whitespace

\* s[:n]
Take(s, n) == SubSeq(s, 1, IF n < Len(s) THEN n ELSE Len(s))

RECURSIVE Flatten(_)
Flatten(ss) == IF ss = <<>> THEN <<>> ELSE Head(ss) \o Flatten(Tail(ss))

-----------------------------------------------------------------------------
(* Regular expressions, as far as parse_spotify_url uses them: a pattern   *)
(* is a sequence of literals and optional literals that ends in the        *)
(* capturing group ([a-zA-Z0-9]+).                                         *)

Lit(s) == [kind |-> "lit", s |-> s]
Opt(s) == [kind |-> "opt", s |-> s]
Group == [kind |-> "group", s |-> <<>>]

\* the end of the longest run of [a-zA-Z0-9] that starts at i (i - 1: none)
RECURSIVE RunEnd(_, _)
RunEnd(s, i) ==
    IF i <= Len(s) /\ s[i] \in AlNum THEN RunEnd(s, i + 1) ELSE i - 1

\* re.match of pat[k..] at position i of s: the captured group, or None
RECURSIVE MatchAt(_, _, _, _)
MatchAt(pat, k, s, i) ==
    IF k > Len(pat) THEN None
    ELSE LET e == pat[k] IN
         CASE e.kind = "lit" ->
                IF LitAt(s, i, e.s)
                THEN MatchAt(pat, k + 1, s, i + Len(e.s)) ELSE None
           [] e.kind = "opt" ->
                LET taken == IF LitAt(s, i, e.s)
                             THEN MatchAt(pat, k + 1, s, i + Len(e.s))
                             ELSE None
                IN  IF taken # None THEN taken
                    ELSE MatchAt(pat, k + 1, s, i)
           [] e.kind = "group" ->
                IF RunEnd(s, i) >= i THEN SubSeq(s, i, RunEnd(s, i))
                ELSE None

\* re.search(pat, s) scanning from position i: group(1) of the leftmost
\* match, or None
RECURSIVE SearchFrom(_, _, _)
SearchFrom(pat, s, i) ==
    IF i > Len(s) THEN None
    ELSE IF MatchAt(pat, 1, s, i) # None THEN MatchAt(pat, 1, s, i)
    ELSE SearchFrom(pat, s, i + 1)

re_search(pat, s) == SearchFrom(pat, s, 1)

-----------------------------------------------------------------------------
(* String literals of the source.                                          *)

S_http == <<"h","t","t","p">>
S_s == <<"s">>
S_track == <<"t","r","a","c","k","/">>
S_open_host == <<"o","p","e","n",".","s","p","o","t","i","f","y",
                 ".","c","o","m","/">>
S_open_track == <<":","/","/">> \o S_open_host \o S_track
S_spotify_track == <<"s","p","o","t","i","f","y",":","t","r","a","c","k",":">>
S_http_marker == <<"h","t","t","p",":","/","/">>
S_https_marker == <<"h","t","t","p","s",":","/","/">>
S_www_marker == <<"w","w","w",".">>

\* the three patterns, in the order the source lists them
patterns == <<
    <<Lit(S_http), Opt(S_s), Lit(S_open_track), Group>>,
    <<Lit(S_spotify_track), Group>>,
    <<Lit(S_track), Group>> >>

\* the for loop over the patterns from pattern k on: the first match returns
RECURSIVE FirstMatch(_, _)
FirstMatch(t, k) ==
    IF k > Len(patterns) THEN None
    ELSE IF re_search(patterns[k], t) # None THEN re_search(patterns[k], t)
    ELSE FirstMatch(t, k + 1)

\* the bare "track/" pattern tried before the two Spotify patterns
parse_spotify_url_BareFirst(t) ==
    IF t = None \/ t = <<>> THEN None
    ELSE IF re_search(patterns[3], t) # None THEN re_search(patterns[3], t)
    ELSE FirstMatch(t, 1)

parse_spotify_url(t) ==
    IF t = None \/ t = <<>> THEN None ELSE FirstMatch(t, 1)

-----------------------------------------------------------------------------
(* Input texts: every concatenation of at most n chunks.                   *)

S_deezer_track == S_https_marker \o S_www_marker
                  \o <<"d","e","e","z","e","r",".","c","o","m","/">> \o S_track

Chunks == {
    S_https_marker \o S_open_host \o S_track,
    S_http_marker \o S_open_host \o S_track,
    S_http_marker,
    S_spotify_track,
    S_track,
    <<"W","W","W",".">>,
    <<"a","1">>,
    <<"Z","q">>,
    <<" ">> }

\* the texts made of exactly n chunks
RECURSIVE TextsOf(_)
TextsOf(n) ==
    IF n = 0 THEN {<<>>}
    ELSE {c \o t : c \in Chunks, t \in TextsOf(n - 1)}

\* the texts made of at most n chunks
TextsUpTo(n) == UNION {TextsOf(k) : k \in 0..n}

-----------------------------------------------------------------------------
(* parse_spotify_url as a program of its own: one call on one argument.    *)

\* nothing of main's Twitch side has run
NoTwitch ==
    /\ broadcaster_login = <<>>
    /\ oauth = [state |-> None, auth_code |-> None, access_token |-> None,
                refresh_token |-> None, runner |-> "none"]
    /\ ticks = 0
    /\ inflight = <<>>
    /\ callbacks = <<>>
    /\ success = FALSE
    /\ tw_calls = <<>>
    /\ rewards = <<>>
    /\ song_reward = NoReward
    /\ status_i = 0
    /\ after = None
    /\ summary = None

Idle ==
    /\ NoTwitch
    /\ redemptions = <<>>
    /\ ri = 0
    /\ song_requests = <<>>
    /\ search_requests = <<>>
    /\ skipped = <<>>
    /\ sp_calls = <<>>
    /\ search_results = <<>>
    /\ si = 0
    /\ all_track_uris = <<>>
    /\ bi = 0
    /\ added_count = 0
    /\ failed_tracks = <<>>

InitParser ==
    /\ pc = "parse"
    /\ text \in TextsUpTo(MaxChunks) \cup {None}
    /\ parsed = None
    /\ Idle

ParseCall ==
    /\ pc = "parse"
    /\ parsed' = parse_spotify_url(text)
    /\ pc' = "parsed"
    /\ UNCHANGED <<text, twitchVars, summary, classifierVars, playlistVars>>

NextParser == ParseCall

SpecParser == InitParser /\ [][NextParser]_vars

-----------------------------------------------------------------------------
(* get_song_requests_from_twitch: the classification loop over the fetched *)
(* redemptions.                                                            *)

statuses == <<"CANCELED", "FULFILLED", "UNFULFILLED">>

\* the chunks of the user inputs: the web URL of a Spotify track and of
\* another service's track, both up to the identifier, the URI of a Spotify
\* track, two URL markers, a word and a blank
InputChunks == {
    S_https_marker \o S_open_host \o S_track,
    S_deezer_track,
    S_spotify_track \o <<"Z","q">>,
    S_http_marker,
    <<"W","W","W",".">>,
    <<"a","1">>,
    <<" ">> }

\* the user inputs made of exactly n chunks
RECURSIVE InputsOf(_)
InputsOf(n) ==
    IF n = 0 THEN {<<>>}
    ELSE {c \o t : c \in InputChunks, t \in InputsOf(n - 1)}

\* the lists of at most n user inputs made of at most b chunks in all
RECURSIVE InputLists(_, _)
InputLists(n, b) ==
    IF n = 0 THEN {<<>>}
    ELSE {<<>>} \cup UNION {
             {<<t>> \o rest : t \in InputsOf(k), rest \in InputLists(n - 1, b - k)}
             : k \in 0..b}

\* the record the service returns at place i of the list
Redemption(i, input) ==
    [user_input  |-> input,
     user_name   |-> IF i % 2 = 1 THEN "alice" ELSE "bob",
     redeemed_at |-> i,
     status      |-> statuses[((i - 1) % Len(statuses)) + 1]]

\* the test without lower(): the markers in lower case only
HasUrlMarker_CaseSensitive(user_input) ==
    \/ Contains(user_input, S_http_marker)
    \/ Contains(user_input, S_https_marker)
    \/ Contains(user_input, S_www_marker)

\* the test of the inner if: the input holds a URL marker
HasUrlMarker(user_input) ==
    \/ Contains(lower(user_input), S_http_marker)
    \/ Contains(lower(user_input), S_https_marker)
    \/ Contains(lower(user_input), S_www_marker)

\* the branch the loop body takes on one user input
Branch(user_input) ==
    IF parse_spotify_url(user_input) # None
           /\ parse_spotify_url(user_input) # <<>>
    THEN "direct_url"
    ELSE IF HasUrlMarker(user_input) THEN "non_spotify_url"
    ELSE IF StripNonEmpty(user_input) THEN "search"
    ELSE "empty_input"

DirectRequest(redemption) ==
    [track_id       |-> parse_spotify_url(redemption.user_input),
     user           |-> redemption.user_name,
     redeemed_at    |-> redemption.redeemed_at,
     status         |-> redemption.status,
     original_input |-> redemption.user_input,
     method         |-> "direct_url"]

SearchRequest(redemption) ==
    [search_query |-> redemption.user_input,
     user         |-> redemption.user_name,
     redeemed_at  |-> redemption.redeemed_at,
     status       |-> redemption.status]

\* the printed diagnostic of a skipped record
Diagnostic(redemption) ==
    IF Branch(redemption.user_input) = "non_spotify_url"
    THEN [kind |-> "non_spotify_url", shown |-> Take(redemption.user_input, 50)]
    ELSE [kind |-> "empty_input", shown |-> redemption.user_name]

\* the lists after the loop body has run on one record
SongRequestsAfter(redemption) ==
    IF Branch(redemption.user_input) = "direct_url"
    THEN Append(song_requests, DirectRequest(redemption))
    ELSE song_requests

\* the search branch not under the else of "if track_id"
SearchRequestsAfter_NoElse(redemption) ==
    IF ~HasUrlMarker(redemption.user_input)
           /\ StripNonEmpty(redemption.user_input)
    THEN Append(search_requests, SearchRequest(redemption))
    ELSE search_requests

SearchRequestsAfter(redemption) ==
    IF Branch(redemption.user_input) = "search"
    THEN Append(search_requests, SearchRequest(redemption))
    ELSE search_requests

SkippedAfter(redemption) ==
    IF Branch(redemption.user_input) \in {"non_spotify_url", "empty_input"}
    THEN Append(skipped, Diagnostic(redemption))
    ELSE skipped

InitClassifier ==
    /\ pc = "classify"
    /\ NoTwitch
    /\ text = None
    /\ parsed = None
    /\ \E inputs \in InputLists(MaxRedemptions, MaxInputChunks) :
           redemptions = [i \in DOMAIN inputs |-> Redemption(i, inputs[i])]
    /\ ri = 0
    /\ song_requests = <<>>
    /\ search_requests = <<>>
    /\ skipped = <<>>
    /\ sp_calls = <<>>
    /\ search_results = <<>>
    /\ si = 0
    /\ all_track_uris = <<>>
    /\ bi = 0
    /\ added_count = 0
    /\ failed_tracks = <<>>

\* one turn of "for redemption in redemptions"
ClassifyStep ==
    /\ pc = "classify"
    /\ ri < Len(redemptions)
    /\ song_requests' = SongRequestsAfter(redemptions[ri + 1])
    /\ search_requests' = SearchRequestsAfter(redemptions[ri + 1])
    /\ skipped' = SkippedAfter(redemptions[ri + 1])
    /\ ri' = ri + 1
    /\ UNCHANGED <<pc, parserVars, twitchVars, summary, redemptions,
                   playlistVars>>

\* the loop is over: return song_requests, search_requests
ClassifyReturn ==
    /\ pc = "classify"
    /\ ri = Len(redemptions)
    /\ pc' = "main"
    /\ UNCHANGED <<parserVars, twitchVars, summary, classifierVars,
                   playlistVars>>

\* main without the check of the two lists
MainGate_NoCheck ==
    /\ pc = "main"
    /\ pc' = "sp_auth"
    /\ UNCHANGED <<parserVars, twitchVars, summary, classifierVars,
                   playlistVars>>

\* main: no playlist when both lists are empty
MainGate ==
    /\ pc = "main"
    /\ pc' = IF song_requests = <<>> /\ search_requests = <<>>
             THEN "no_requests" ELSE "sp_auth"
    /\ UNCHANGED <<parserVars, twitchVars, summary, classifierVars,
                   playlistVars>>

-----------------------------------------------------------------------------
(* create_spotify_playlist.                                                *)

batch_size == 100

\* str(n), n >= 0
RECURSIVE DecStr(_)
DecStr(n) ==
    IF n < 10 THEN <<Digits[n + 1]>>
    ELSE DecStr(n \div 10) \o <<Digits[(n % 10) + 1]>>

\* f"spotify:track:{track_id}"
TrackUri(track_id) == S_spotify_track \o track_id

\* [f"spotify:track:{req['track_id']}" for req in song_requests]
track_uris == [i \in DOMAIN song_requests |-> TrackUri(song_requests[i].track_id)]

\* [result['track_uri'] for result in search_results]
search_track_uris == [i \in DOMAIN search_results |-> search_results[i].track_uri]

\* the keys of dict.fromkeys(xs[lo..hi]), in insertion order: those of the
\* first half, then those the second half inserts after them
RECURSIVE FromKeys(_, _, _)
FromKeys(xs, lo, hi) ==
    IF lo > hi THEN <<>>
    ELSE IF lo = hi THEN <<xs[lo]>>
    ELSE LET mid == (lo + hi) \div 2
             first == FromKeys(xs, lo, mid)
             NotInFirst(x) == x \notin Range(first)
         IN  first \o SelectSeq(FromKeys(xs, mid + 1, hi), NotInFirst)

\* the list as it is, duplicates kept
dict_fromkeys_list_NoDedup(xs) == xs

\* list(dict.fromkeys(xs))
dict_fromkeys_list(xs) == FromKeys(xs, 1, Len(xs))

\* a slice one item too long
Batch_OneMore(uris, i) ==
    SubSeq(uris, i + 1,
           IF i + batch_size + 1 < Len(uris) THEN i + batch_size + 1
           ELSE Len(uris))

\* all_track_uris[i:i + batch_size], i 0-based
Batch(uris, i) ==
    SubSeq(uris, i + 1,
           IF i + batch_size < Len(uris) THEN i + batch_size ELSE Len(uris))

\* what the search endpoint may answer: an error, or a result whose item list
\* is empty or holds one track; a track may come without artists
TrackIds == {<<"a","1">>, <<"Z","q">>}
HitIds == TrackIds \cup {DecStr(1)}

Track(id, artists) ==
    [id |-> id, uri |-> TrackUri(id), name |-> "song", artists |-> artists]

SearchResponses ==
    {[raised |-> TRUE, items |-> <<>>], [raised |-> FALSE, items |-> <<>>]}
    \cup {[raised |-> FALSE, items |-> <<Track(id, <<[name |-> "artist"]>>)>>]
            : id \in HitIds}
    \cup {[raised |-> FALSE, items |-> <<Track(<<"a","1">>, <<>>)>>]}

\* the body of the try block: whether it appends, on one answer
Appends(resp) ==
    /\ ~resp.raised
    /\ resp.items # <<>>
    /\ resp.items[1].artists # <<>>

SearchResult(search_req, resp) ==
    [track_id     |-> resp.items[1].id,
     track_uri    |-> resp.items[1].uri,
     track_name   |-> resp.items[1].name,
     artist       |-> resp.items[1].artists[1].name,
     user         |-> search_req.user,
     search_query |-> search_req.search_query,
     method       |-> "search"]

\* insert(0, ...) for append
SearchResultsAfter_Prepend(search_req, resp) ==
    IF Appends(resp)
    THEN <<SearchResult(search_req, resp)>> \o search_results
    ELSE search_results

SearchResultsAfter(search_req, resp) ==
    IF Appends(resp)
    THEN Append(search_results, SearchResult(search_req, resp))
    ELSE search_results

\* no except clause around the search: an error ends the function
SearchLoopAfter_Uncaught(resp) ==
    IF resp.raised \/ (resp.items # <<>> /\ resp.items[1].artists = <<>>)
    THEN "crashed" ELSE "search"

\* where the search loop stands after one turn: "except Exception" catches
\* whatever the try block raised, and the loop goes on
SearchLoopAfter(resp) == "search"

\* no except clause around the batch call: an error ends the function
AddLoopAfter_Uncaught(ok) == IF ok THEN "add" ELSE "crashed"

\* where the batch loop stands after one turn: "except Exception" catches
\* the error of playlist_add_items, and the loop goes on
AddLoopAfter(ok) == "add"

Call(op, args, ok, ret) == [op |-> op, args |-> args, ok |-> ok, ret |-> ret]

\* the request lists create_spotify_playlist may be handed
DirectOf(i, id) ==
    [track_id       |-> id,
     user           |-> IF i % 2 = 1 THEN "alice" ELSE "bob",
     redeemed_at    |-> i,
     status         |-> statuses[((i - 1) % Len(statuses)) + 1],
     original_input |-> TrackUri(id),
     method         |-> "direct_url"]

Queries == {<<"a","1">>, <<"Z","q"," ","a","1">>}

SearchOf(i, q) ==
    [search_query |-> q,
     user         |-> IF i % 2 = 1 THEN "alice" ELSE "bob",
     redeemed_at  |-> i,
     status       |-> statuses[((i - 1) % Len(statuses)) + 1]]

SeqsUpTo(S, n) == UNION {[1..k -> S] : k \in 0..n}

DirectLists ==
    {[i \in DOMAIN ids |-> DirectOf(i, ids[i])] : ids \in SeqsUpTo(TrackIds, MaxDirect)}
    \cup {[i \in 1..n |-> DirectOf(i, DecStr(i))] : n \in 1..MaxTracks}

SearchLists ==
    {[i \in DOMAIN qs |-> SearchOf(i, qs[i])] : qs \in SeqsUpTo(Queries, MaxSearch)}

InitPlaylist ==
    /\ pc = "sp_auth"
    /\ NoTwitch
    /\ text = None
    /\ parsed = None
    /\ redemptions = <<>>
    /\ ri = 0
    /\ song_requests \in DirectLists
    /\ search_requests \in SearchLists
    /\ (Len(song_requests) > MaxDirect => Len(search_requests) <= 1)
    /\ skipped = <<>>
    /\ sp_calls = <<>>
    /\ search_results = <<>>
    /\ si = 0
    /\ all_track_uris = <<>>
    /\ bi = 0
    /\ added_count = 0
    /\ failed_tracks = <<>>

\* sp.current_user(): an error here is not caught
SpotifyAuth ==
    /\ pc = "sp_auth"
    /\ \E ok \in BOOLEAN :
        /\ sp_calls' = Append(sp_calls, Call("current_user", <<>>, ok, <<>>))
        /\ pc' = IF ok THEN "create" ELSE "crashed"
    /\ UNCHANGED <<parserVars, twitchVars, summary, classifierVars,
                   search_results, si, all_track_uris, bi, added_count,
                   failed_tracks>>

\* the playlist made only once there is a direct request to put into it
PlaylistCreate_OnlyIfDirect ==
    /\ pc = "create"
    /\ \E ok \in BOOLEAN :
        /\ sp_calls' = IF song_requests = <<>> THEN sp_calls
                        ELSE Append(sp_calls,
                                 Call("user_playlist_create", [public |-> TRUE],
                                      ok, <<>>))
        /\ pc' = IF ok \/ song_requests = <<>> THEN "search" ELSE "crashed"
    /\ search_results' = <<>>
    /\ si' = 0
    /\ UNCHANGED <<parserVars, twitchVars, summary, classifierVars,
                   all_track_uris, bi, added_count, failed_tracks>>

\* sp.user_playlist_create(...): an error here is not caught
PlaylistCreate ==
    /\ pc = "create"
    /\ \E ok \in BOOLEAN :
        /\ sp_calls' = Append(sp_calls,
               Call("user_playlist_create", [public |-> TRUE], ok, <<>>))
        /\ pc' = IF ok THEN "search" ELSE "crashed"
    /\ search_results' = <<>>
    /\ si' = 0
    /\ UNCHANGED <<parserVars, twitchVars, summary, classifierVars,
                   all_track_uris, bi, added_count, failed_tracks>>

\* one turn of "for search_req in search_requests"
SearchStep ==
    /\ pc = "search"
    /\ si < Len(search_requests)
    /\ \E resp \in SearchResponses :
        /\ sp_calls' = Append(sp_calls,
               Call("search",
                    [q |-> search_requests[si + 1].search_query,
                     type |-> "track", limit |-> 1],
                    ~resp.raised, resp))
        /\ search_results' = SearchResultsAfter(search_requests[si + 1], resp)
        /\ pc' = SearchLoopAfter(resp)
    /\ si' = si + 1
    /\ UNCHANGED <<parserVars, twitchVars, summary, classifierVars,
                   all_track_uris, bi, added_count, failed_tracks>>

\* the search loop is over: assemble the track list, reset the counters
Assemble ==
    /\ pc = "search"
    /\ si = Len(search_requests)
    /\ all_track_uris' = dict_fromkeys_list(track_uris \o search_track_uris)
    /\ added_count' = 0
    /\ failed_tracks' = <<>>
    /\ bi' = 0
    /\ pc' = "add"
    /\ UNCHANGED <<parserVars, twitchVars, summary, classifierVars, sp_calls,
                   search_results, si>>

\* the count raised before the call's outcome is known
AddedAfter_Always(batch, ok) == added_count + Len(batch)

AddedAfter(batch, ok) == IF ok THEN added_count + Len(batch) ELSE added_count

FailedAfter(batch, ok) == IF ok THEN failed_tracks ELSE failed_tracks \o batch

\* one turn of "for i in range(0, len(all_track_uris), batch_size)"
AddBatch ==
    /\ pc = "add"
    /\ bi < Len(all_track_uris)
    /\ \E ok \in BOOLEAN :
        /\ sp_calls' = Append(sp_calls,
               Call("playlist_add_items",
                    [items |-> Batch(all_track_uris, bi)], ok, <<>>))
        /\ added_count' = AddedAfter(Batch(all_track_uris, bi), ok)
        /\ failed_tracks' = FailedAfter(Batch(all_track_uris, bi), ok)
        /\ pc' = AddLoopAfter(ok)
    /\ bi' = bi + batch_size
    /\ UNCHANGED <<parserVars, twitchVars, summary, classifierVars,
                   search_results, si, all_track_uris>>

\* the two track counts taken from the deduplicated lists
Summary_AfterDedup ==
    [direct |-> Len(dict_fromkeys_list(track_uris)),
     search |-> Len(all_track_uris) - Len(dict_fromkeys_list(track_uris)),
     added  |-> added_count,
     failed |-> Len(failed_tracks),
     failed_line |-> failed_tracks # <<>>]

\* the numbers of the "Summary:" lines; failed_line: the "Failed to add"
\* line is printed
Summary ==
    [direct |-> Len(song_requests),
     search |-> Len(search_results),
     added  |-> added_count,
     failed |-> Len(failed_tracks),
     failed_line |-> failed_tracks # <<>>]

\* the batch loop is over: print the summary, return the playlist
PlaylistReturn ==
    /\ pc = "add"
    /\ bi >= Len(all_track_uris)
    /\ summary' = Summary
    /\ pc' = "done"
    /\ UNCHANGED <<parserVars, twitchVars, classifierVars, playlistVars>>

NextPlaylist ==
    \/ SpotifyAuth
    \/ PlaylistCreate
    \/ SearchStep
    \/ Assemble
    \/ AddBatch
    \/ PlaylistReturn

SpecPlaylist == InitPlaylist /\ [][NextPlaylist]_vars

-----------------------------------------------------------------------------
(* The run from the fetched redemptions on: classification, main's check,  *)
(* create_spotify_playlist.                                                *)

Init == InitClassifier

Next ==
    \/ ClassifyStep
    \/ ClassifyReturn
    \/ MainGate
    \/ SpotifyAuth
    \/ PlaylistCreate
    \/ SearchStep
    \/ Assemble
    \/ AddBatch
    \/ PlaylistReturn

Spec == Init /\ [][Next]_vars

-----------------------------------------------------------------------------
(* TwitchOAuth: the authorization flow and its callback server.  The       *)
(* handlers of the server run on the event loop of start_oauth_flow, one   *)
(* step at every point where the flow awaits.                              *)

timeout == 120

\* secrets.token_urlsafe(32) of this flow, and a value it did not produce
FlowState == <<"s1">>
OtherState == <<"s2">>
AuthCode == <<"c1">>

\* the query of a request to /twitch/callback: whether it has an 'error'
\* key, params.get('state'), params.get('code')
Request(error, state, code) == [error |-> error, state |-> state, code |-> code]

CallbackRequests ==
    {Request(FALSE, FlowState, AuthCode),     \* the redirect after consent
     Request(TRUE, FlowState, None),          \* the redirect after denial
     Request(FALSE, OtherState, AuthCode),    \* forged
     Request(FALSE, None, AuthCode),          \* forged, no state
     Request(TRUE, OtherState, AuthCode),     \* forged, with an error
     Request(FALSE, FlowState, None)}         \* no code

\* what the token endpoint may answer: 200 with the tokens, 200 with a body
\* that lacks them, or another status
TokenResponses ==
    {[status |-> 200, access_token |-> <<"t1">>, refresh_token |-> <<"r1">>],
     [status |-> 200, access_token |-> None, refresh_token |-> None],
     [status |-> 400, access_token |-> None, refresh_token |-> None]}

\* bool(x) of an optional string
Truthy(x) == x # None /\ x # <<>>

\* the handler with the code stored before the state is compared
oauth_callback_CodeFirst(o, req) ==
    IF req.error THEN [oauth |-> o, exchange |-> FALSE, status |-> 400]
    ELSE LET o2 == [o EXCEPT !.auth_code = req.code] IN
         IF req.state # o.state
         THEN [oauth |-> o2, exchange |-> FALSE, status |-> 400]
         ELSE IF ~Truthy(req.code)
         THEN [oauth |-> o2, exchange |-> FALSE, status |-> 400]
         ELSE [oauth |-> o2, exchange |-> TRUE, status |-> 0]

\* oauth_callback up to its first await: the object after it, whether it
\* has called exchange_code_for_token, and the status of its response
\* (0: none yet, the handler is suspended in the exchange)
oauth_callback(o, req) ==
    IF req.error THEN [oauth |-> o, exchange |-> FALSE, status |-> 400]
    ELSE IF req.state # o.state
    THEN [oauth |-> o, exchange |-> FALSE, status |-> 400]
    ELSE LET o2 == [o EXCEPT !.auth_code = req.code] IN
         IF ~Truthy(o2.auth_code)
         THEN [oauth |-> o2, exchange |-> FALSE, status |-> 400]
         ELSE [oauth |-> o2, exchange |-> TRUE, status |-> 0]

\* exchange_code_for_token from the response on: the object after it
exchange_result(o, resp) ==
    IF resp.status = 200
    THEN [o EXCEPT !.access_token = resp.access_token,
                   !.refresh_token = resp.refresh_token]
    ELSE o

\* what the services have fed the run so far: callback requests, rewards,
\* cursors and records
InputsSoFar ==
    LET WithCursor(c) == c.op = "redemptions" /\ c.ret.cursor # None IN
    Len(callbacks) + Len(rewards) + Len(redemptions)
        + Len(SelectSeq(tw_calls, WithCursor))

\* an entry of the callback log: the request, the status answered
\* (0: none yet, -1: the handler was cancelled), and where the flow stood
\* when the answer was made
Handled(req, status, at) == [req |-> req, status |-> status, at |-> at]

\* start_oauth_flow down to the wait loop; setting up the runner, parsing
\* the port or binding the site may raise, which nothing catches
OAuthStart ==
    /\ pc = "oauth_start"
    /\ \E ok \in BOOLEAN :
        /\ oauth' = [oauth EXCEPT !.state = FlowState,
                                  !.runner = IF ok THEN "up" ELSE "failed"]
        /\ pc' = IF ok THEN "oauth_wait" ELSE "crashed"
    /\ ticks' = 0
    /\ UNCHANGED <<broadcaster_login, inflight, callbacks, success, tw_calls,
                   rewards, song_reward, status_i, after, summary, parserVars,
                   classifierVars, playlistVars>>

\* a request reaches the server while the flow sleeps or cleans up: the
\* handler runs up to its first await
Callback ==
    /\ pc \in {"oauth_wait", "oauth_cleanup"}
    /\ Len(callbacks) < MaxCallbacks
    /\ InputsSoFar < MaxInputs
    /\ \E req \in CallbackRequests :
        LET h == oauth_callback(oauth, req) IN
        /\ oauth' = h.oauth
        /\ callbacks' = Append(callbacks, Handled(req, h.status, pc))
        /\ inflight' = IF h.exchange
                        THEN Append(inflight, [cb |-> Len(callbacks) + 1,
                                               code |-> h.oauth.auth_code])
                        ELSE inflight
        /\ tw_calls' = IF h.exchange
                        THEN Append(tw_calls,
                                 Call("token", [code |-> h.oauth.auth_code],
                                      TRUE, <<>>))
                        ELSE tw_calls
    /\ UNCHANGED <<pc, broadcaster_login, ticks, success, rewards,
                   song_reward, status_i, after, summary, parserVars,
                   classifierVars, playlistVars>>

\* the token endpoint answers one suspended handler, which finishes
ExchangeDone ==
    /\ pc \in {"oauth_wait", "oauth_cleanup"}
    /\ \E k \in DOMAIN inflight, resp \in TokenResponses :
        /\ oauth' = exchange_result(oauth, resp)
        /\ callbacks' = [callbacks EXCEPT ![inflight[k].cb] =
               Handled(@.req, IF resp.status = 200 THEN 200 ELSE 500, pc)]
        /\ inflight' = SubSeq(inflight, 1, k - 1)
                        \o SubSeq(inflight, k + 1, Len(inflight))
    /\ UNCHANGED <<pc, broadcaster_login, ticks, success, tw_calls, rewards,
                   song_reward, status_i, after, summary, parserVars,
                   classifierVars, playlistVars>>

\* the loop left only when the sleeps are used up
WaitAfter_NoBreak(o, n) == IF n = timeout THEN "oauth_cleanup" ELSE "oauth_wait"

\* where the flow stands after the n-th sleep of the wait loop
WaitAfter(o, n) ==
    IF Truthy(o.access_token) \/ n = timeout
    THEN "oauth_cleanup" ELSE "oauth_wait"

\* one turn of "for _ in range(timeout)": a sleep of a second is over
Tick ==
    /\ pc = "oauth_wait"
    /\ ticks < timeout
    /\ ticks' = ticks + 1
    /\ pc' = WaitAfter(oauth, ticks + 1)
    /\ UNCHANGED <<broadcaster_login, oauth, inflight, callbacks, success,
                   tw_calls, rewards, song_reward, status_i, after, summary,
                   parserVars, classifierVars, playlistVars>>

\* what start_oauth_flow returns
FlowResult(o) == Truthy(o.access_token)

\* runner.cleanup() is over, the handlers still suspended are cancelled;
\* the final check, and the return
OAuthReturn ==
    /\ pc = "oauth_cleanup"
    /\ oauth' = [oauth EXCEPT !.runner = "cleaned"]
    /\ callbacks' = [i \in DOMAIN callbacks |->
                        IF callbacks[i].status = 0
                        THEN Handled(callbacks[i].req, -1, pc)
                        ELSE callbacks[i]]
    /\ inflight' = <<>>
    /\ success' = FlowResult(oauth)
    /\ ticks' = 0
    /\ pc' = "auth_gate"
    /\ UNCHANGED <<broadcaster_login, tw_calls, rewards, song_reward,
                   status_i, after, summary, parserVars, classifierVars,
                   playlistVars>>

InitOAuth ==
    /\ pc = "oauth_start"
    /\ Idle
    /\ text = None
    /\ parsed = None

NextOAuth ==
    \/ OAuthStart
    \/ Callback
    \/ ExchangeDone
    \/ Tick
    \/ OAuthReturn

SpecOAuth == InitOAuth /\ [][NextOAuth]_vars

\* asyncio.sleep(1) returns, and runner.cleanup() returns: it waits for the
\* handlers no longer than its shutdown timeout
FairOAuth == WF_vars(OAuthStart) /\ WF_vars(Tick) /\ WF_vars(OAuthReturn)

SpecOAuthFair == SpecOAuth /\ FairOAuth

-----------------------------------------------------------------------------
(* main and get_song_requests_from_twitch down to the classification loop: *)
(* the prompt, the authorization, the broadcaster, the reward, the pages.  *)

REWARD_NAME == <<"s","o","n","g"," ","r","e","q","u","e","s","t"," ","b","o","t">>

\* str.strip()
strip(s) ==
    LET kept == {i \in DOMAIN s : s[i] \notin Whitespace} IN
    IF kept = {} THEN <<>>
    ELSE SubSeq(s, CHOOSE i \in kept : \A j \in kept : i <= j,
                   CHOOSE i \in kept : \A j \in kept : i >= j)

\* what may be typed at the prompt
ChannelInputs == {<<>>, <<" ", "\t">>, <<" ","Z","q"," ">>}

\* "return [], []", and main takes the pair apart
ReturnEmpty ==
    /\ song_requests' = <<>>
    /\ search_requests' = <<>>
    /\ pc' = "main"

\* main down to the call of get_song_requests_from_twitch
Prompt ==
    /\ pc = "prompt"
    /\ \E typed \in ChannelInputs :
        /\ broadcaster_login' = strip(typed)
        /\ pc' = IF strip(typed) = <<>> THEN "no_channel" ELSE "oauth_start"
    /\ UNCHANGED <<oauthVars, tw_calls, rewards, song_reward, status_i, after,
                   summary, parserVars, classifierVars, playlistVars>>

\* the flow's result ignored
AuthGateAfter_Ignored(ok) == "users"

\* where get_song_requests_from_twitch stands after "if not success"
AuthGateAfter(ok) == IF ok THEN "users" ELSE "main"

AuthGate ==
    /\ pc = "auth_gate"
    /\ pc' = AuthGateAfter(success)
    /\ IF AuthGateAfter(success) = "main"
       THEN song_requests' = <<>> /\ search_requests' = <<>>
       ELSE UNCHANGED <<song_requests, search_requests>>
    /\ UNCHANGED <<broadcaster_login, oauthVars, tw_calls, rewards,
                   song_reward, status_i, after, summary, parserVars,
                   redemptions, ri, skipped, playlistVars>>

\* what /users may answer: no user, or one
UserResponses == {<<>>, <<[id |-> <<"4","2">>]>>}

\* get_broadcaster_id and the check of its result
GetBroadcaster ==
    /\ pc = "users"
    /\ \E data \in UserResponses :
        /\ tw_calls' = Append(tw_calls,
               Call("users", [login |-> broadcaster_login,
                              token |-> oauth.access_token], TRUE, data))
        /\ IF data = <<>>
           THEN ReturnEmpty
           ELSE pc' = "rewards" /\ UNCHANGED <<song_requests, search_requests>>
    /\ UNCHANGED <<broadcaster_login, oauthVars, rewards, song_reward,
                   status_i, after, summary, parserVars, redemptions, ri,
                   skipped, playlistVars>>

\* the titles a reward may have: the name, the name in other case, and two
\* titles that contain the name
RewardTitles ==
    {REWARD_NAME,
     <<"S","o","n","g"," ","R","E","Q","U","E","S","T"," ","b","o","t">>,
     REWARD_NAME \o <<" ","2">>,
     <<"a"," ">> \o REWARD_NAME}

Reward(i, title) == [id |-> DecStr(i), title |-> title]

RewardLists ==
    {[i \in DOMAIN ts |-> Reward(i, ts[i])] : ts \in SeqsUpTo(RewardTitles, MaxRewards)}

\* the last reward whose title contains the name
FindReward_LastContaining(rs) ==
    LET hits == {i \in DOMAIN rs : Contains(lower(rs[i].title), lower(REWARD_NAME))} IN
    IF hits = {} THEN NoReward
    ELSE rs[CHOOSE i \in hits : \A j \in hits : i >= j]

\* the loop over the rewards: song_reward after it
FindReward(rs) ==
    LET hits == {i \in DOMAIN rs : lower(rs[i].title) = lower(REWARD_NAME)} IN
    IF hits = {} THEN NoReward
    ELSE rs[CHOOSE i \in hits : \A j \in hits : i <= j]

\* get_custom_rewards, the search for the reward, and
\* get_reward_redemptions down to its first request
GetRewards ==
    /\ pc = "rewards"
    /\ \E rs \in RewardLists :
        /\ InputsSoFar + Len(rs) <= MaxInputs
        /\ tw_calls' = Append(tw_calls,
               Call("rewards", [broadcaster_id |-> <<"4","2">>], TRUE, rs))
        /\ rewards' = rs
        /\ song_reward' = FindReward(rs)
        /\ IF FindReward(rs) = NoReward
           THEN ReturnEmpty /\ UNCHANGED <<status_i, after, redemptions>>
           ELSE /\ pc' = "fetch"
                /\ status_i' = 1
                /\ after' = None
                /\ redemptions' = <<>>
                /\ UNCHANGED <<song_requests, search_requests>>
    /\ UNCHANGED <<broadcaster_login, oauthVars, summary, parserVars, ri,
                   skipped, playlistVars>>

\* the cursors a page may carry
Cursors == {<<"k","1">>, <<"k","2">>}

\* the user inputs of the fetched records: none, a query, a track URI
FetchedInputs == {<<>>, <<"a","1">>, S_spotify_track \o <<"Z","q">>}

IsRedemptions(c) == c.op = "redemptions"
HasCursor(c) == c.op = "redemptions" /\ Truthy(c.ret.cursor)

\* what the redemptions endpoint may answer next: a page of no or one
\* record of the status asked for, with or without a cursor
Pages ==
    LET datas == {<<>>} \cup
                 {<<[Redemption(Len(redemptions) + 1, t)
                       EXCEPT !.status = statuses[status_i]]>>
                    : t \in IF Len(redemptions) < MaxFetched
                               /\ InputsSoFar < MaxInputs
                            THEN FetchedInputs ELSE {}}
        cursors(d) == {None} \cup
                      (IF Len(SelectSeq(tw_calls, HasCursor)) < MaxCursors
                          /\ InputsSoFar + Len(d) < MaxInputs
                       THEN Cursors ELSE {})
    IN  UNION {{[data |-> d, cursor |-> c] : c \in cursors(d)} : d \in datas}

\* the cursor of the status before kept for the next one
FirstParamsAfter_Kept(a) == a

\* params['after'] of the dict made anew for a status: there is no such key
FirstParamsAfter(a) == None

\* one turn of "while True": a page is requested and taken in; after the
\* last page of the last status the function returns, and the
\* classification loop starts with empty lists
FetchPage ==
    /\ pc = "fetch"
    /\ \E page \in Pages :
        /\ tw_calls' = Append(tw_calls,
               Call("redemptions",
                    [reward_id |-> song_reward.id,
                     status |-> statuses[status_i],
                     first |-> 50,
                     after |-> after], TRUE, page))
        /\ redemptions' = redemptions \o page.data
        /\ IF Truthy(page.cursor)
           THEN /\ after' = page.cursor
                /\ UNCHANGED <<pc, status_i>>
           ELSE /\ after' = FirstParamsAfter(after)
                /\ status_i' = status_i + 1
                /\ pc' = IF status_i = Len(statuses) THEN "classify" ELSE "fetch"
    /\ ri' = 0
    /\ song_requests' = <<>>
    /\ search_requests' = <<>>
    /\ UNCHANGED <<broadcaster_login, oauthVars, rewards, song_reward,
                   summary, parserVars, skipped, playlistVars>>

\* get_song_requests_from_twitch after an authorization that one valid
\* callback completed during the wait
InitTwitch ==
    /\ pc = "users"
    /\ broadcaster_login = <<"Z","q">>
    /\ oauth = [state |-> FlowState, auth_code |-> AuthCode,
                access_token |-> <<"t1">>, refresh_token |-> <<"r1">>,
                runner |-> "cleaned"]
    /\ ticks = 0
    /\ inflight = <<>>
    /\ callbacks = <<Handled(Request(FALSE, FlowState, AuthCode), 200,
                             "oauth_wait")>>
    /\ success = TRUE
    /\ tw_calls = <<Call("token", [code |-> AuthCode], TRUE, <<>>)>>
    /\ rewards = <<>>
    /\ song_reward = NoReward
    /\ status_i = 0
    /\ after = None
    /\ summary = None
    /\ text = None
    /\ parsed = None
    /\ redemptions = <<>>
    /\ ri = 0
    /\ song_requests = <<>>
    /\ search_requests = <<>>
    /\ skipped = <<>>
    /\ sp_calls = <<>>
    /\ search_results = <<>>
    /\ si = 0
    /\ all_track_uris = <<>>
    /\ bi = 0
    /\ added_count = 0
    /\ failed_tracks = <<>>

NextTwitch ==
    \/ GetBroadcaster
    \/ GetRewards
    \/ FetchPage
    \/ ClassifyStep
    \/ ClassifyReturn
    \/ MainGate

SpecTwitch == InitTwitch /\ [][NextTwitch]_vars

InitRun ==
    /\ pc = "prompt"
    /\ Idle
    /\ text = None
    /\ parsed = None

NextRun ==
    \/ Prompt
    \/ OAuthStart
    \/ Callback
    \/ ExchangeDone
    \/ Tick
    \/ OAuthReturn
    \/ AuthGate
    \/ GetBroadcaster
    \/ GetRewards
    \/ FetchPage
    \/ ClassifyStep
    \/ ClassifyReturn
    \/ MainGate
    \/ SpotifyAuth
    \/ PlaylistCreate
    \/ SearchStep
    \/ Assemble
    \/ AddBatch
    \/ PlaylistReturn

SpecRun == InitRun /\ [][NextRun]_vars

-----------------------------------------------------------------------------
(* The parser's reference: for each pattern, the places where its literal  *)
(* prefix stands directly before an alphanumeric character.                *)

RefPrefixes == <<
    {S_http_marker \o S_open_host \o S_track,
     S_https_marker \o S_open_host \o S_track},
    {S_spotify_track},
    {S_track} >>

RefHits(t, k) ==
    {i \in 1..Len(t) : \E p \in RefPrefixes[k] :
        /\ LitAt(t, i, p)
        /\ i + Len(p) <= Len(t)
        /\ t[i + Len(p)] \in AlNum}

Min(S) == CHOOSE m \in S : \A n \in S : m <= n

\* the alphanumeric token that starts at j: the longest one
RefToken(t, j) ==
    LET e == CHOOSE x \in j..Len(t) :
                 /\ \A y \in j..x : t[y] \in AlNum
                 /\ (x = Len(t) \/ t[x + 1] \notin AlNum)
    IN  [y \in 1..(e - j + 1) |-> t[j + y - 1]]

RefParse(t) ==
    IF t = None \/ Len(t) = 0 THEN None
    ELSE LET ks == {k \in DOMAIN RefPrefixes : RefHits(t, k) # {}} IN
         IF ks = {} THEN None
         ELSE LET k == Min(ks)
                  i == Min(RefHits(t, k))
                  p == CHOOSE q \in RefPrefixes[k] : LitAt(t, i, q)
              IN  RefToken(t, i + Len(p))

\* C4: parse_spotify_url returns, on every text, the identifier captured by
\* the first of the patterns (a), (b), (c), in that order, that matches
\* anywhere in the text, whatever the places of the matches; it returns None
\* on the empty text, on None, and when no pattern matches.
C4_ParserAgreesWithReference ==
    pc = "parsed" => parsed = RefParse(text)

\* a text where (c) matches before the place where (b) matches, with another
\* identifier, and the parser returned (b)'s
C4_Witness ==
    /\ pc = "parsed"
    /\ text # None
    /\ RefHits(text, 1) = {}
    /\ RefHits(text, 2) # {}
    /\ RefHits(text, 3) # {}
    /\ Min(RefHits(text, 3)) < Min(RefHits(text, 2))
    /\ parsed = RefToken(text, Min(RefHits(text, 2)) + Len(S_spotify_track))
    /\ parsed # RefToken(text, Min(RefHits(text, 3)) + Len(S_track))

-----------------------------------------------------------------------------
(* The classifier's claims.                                                *)

\* the text holds 'http://', 'https://' or 'www.', whatever the case
UrlShaped(t) ==
    \E m \in {S_http_marker, S_https_marker, S_www_marker} :
        \E i \in 1..Len(t) :
            /\ i + Len(m) - 1 <= Len(t)
            /\ \A k \in 1..Len(m) : LowerChar(t[i + k - 1]) = m[k]

\* the text holds an open.spotify.com track URL or a spotify:track: URI
SpotifyReference(t) == RefHits(t, 1) # {} \/ RefHits(t, 2) # {}

\* the requests made from the record fetched at place i
DirectOfRecord(i) ==
    {k \in DOMAIN song_requests : song_requests[k].redeemed_at = i}
SearchOfRecord(i) ==
    {k \in DOMAIN search_requests : search_requests[k].redeemed_at = i}

\* C1: every record the loop has consumed went to exactly one of
\* song_requests, search_requests and the discarded ones: the three counts
\* sum to the number of records consumed (all of them once the loop is
\* over), and no record is in both lists.
C1_ClassificationTotalExclusive ==
    /\ Len(song_requests) + Len(search_requests) + Len(skipped) = ri
    /\ (pc # "classify" => ri = Len(redemptions))
    /\ \A i \in DOMAIN redemptions :
           /\ Cardinality(DirectOfRecord(i)) + Cardinality(SearchOfRecord(i))
                  <= (IF i <= ri THEN 1 ELSE 0)

\* three records, one to each outcome, and the loop is over
C1_Witness ==
    /\ pc = "main"
    /\ Len(redemptions) = 3
    /\ Len(song_requests) = 1
    /\ Len(search_requests) = 1
    /\ Len(skipped) = 1

\* C2: no record whose input is URL-shaped produces a SearchRequest, and no
\* URL-shaped text is the query of a Spotify search call.
C2_UrlNeverSearched ==
    /\ \A i \in 1..ri :
           UrlShaped(redemptions[i].user_input) => SearchOfRecord(i) = {}
    /\ \A k \in DOMAIN search_requests :
           ~UrlShaped(search_requests[k].search_query)
    /\ \A c \in DOMAIN sp_calls :
           sp_calls[c].op = "search" => ~UrlShaped(sp_calls[c].args.q)

\* a record with an upper-case marker was discarded, another record was
\* searched for
C2_Witness ==
    /\ pc = "done"
    /\ \E i \in DOMAIN redemptions :
           /\ UrlShaped(redemptions[i].user_input)
           /\ ~HasUrlMarker_CaseSensitive(redemptions[i].user_input)
           /\ DirectOfRecord(i) = {}
    /\ \E c \in DOMAIN sp_calls : sp_calls[c].op = "search"

\* C3, as claimed: every consumed record whose input is URL-shaped and holds
\* no Spotify reference is discarded: it is in neither list, and no URI made
\* from it is submitted.
C3_NonSpotifyUrlDiscarded ==
    \A i \in 1..ri :
        (UrlShaped(redemptions[i].user_input)
             /\ ~SpotifyReference(redemptions[i].user_input))
        => DirectOfRecord(i) = {} /\ SearchOfRecord(i) = {}

-----------------------------------------------------------------------------
(* The claims about create_spotify_playlist.                               *)

IsSearch(c) == c.op = "search"
IsAdd(c) == c.op = "playlist_add_items"
IsFailedAdd(c) == c.op = "playlist_add_items" /\ ~c.ok

SearchCalls == SelectSeq(sp_calls, IsSearch)
AddCalls == SelectSeq(sp_calls, IsAdd)

ItemsOf(calls) == Flatten([k \in DOMAIN calls |-> calls[k].args.items])

\* the first place of x in xs
FirstIndex(xs, x) == Min({i \in DOMAIN xs : xs[i] = x})

\* C5: the assembled sequence holds no URI twice, holds exactly the URIs of
\* the direct URIs followed by the search URIs, and orders them by their
\* first place in that concatenation.
C5_AssembledUniqueFirstSeen ==
    pc \in {"add", "done"} =>
        LET cat == track_uris \o search_track_uris IN
        /\ Cardinality(Range(all_track_uris)) = Len(all_track_uris)
        /\ Range(all_track_uris) = Range(cat)
        /\ \A i \in 1..(Len(all_track_uris) - 1) :
               FirstIndex(cat, all_track_uris[i])
                   < FirstIndex(cat, all_track_uris[i + 1])

\* the inputs [A, B] and [A, C] assembled to [A, B, C]
C5_Witness ==
    /\ pc = "add"
    /\ bi = 0
    /\ Len(track_uris) = 2
    /\ track_uris[1] # track_uris[2]
    /\ Len(search_track_uris) = 2
    /\ search_track_uris[1] = track_uris[1]
    /\ search_track_uris[2] \notin Range(track_uris)
    /\ all_track_uris = track_uris \o <<search_track_uris[2]>>

\* C6: every playlist_add_items call carries between 1 and batch_size URIs,
\* every call but the last exactly batch_size, and the batches submitted so
\* far, in call order, are the beginning of the assembled sequence: all of
\* it once the loop is over.
C6_BatchesPartitionSequence ==
    /\ \A k \in DOMAIN AddCalls :
           /\ Len(AddCalls[k].args.items) >= 1
           /\ Len(AddCalls[k].args.items) <= 100
           /\ (k < Len(AddCalls) => Len(AddCalls[k].args.items) = 100)
    /\ Len(ItemsOf(AddCalls)) <= Len(all_track_uris)
    /\ ItemsOf(AddCalls) = SubSeq(all_track_uris, 1, Len(ItemsOf(AddCalls)))
    /\ (pc = "done" => ItemsOf(AddCalls) = all_track_uris)

\* 150 URIs went out as a batch of 100 and a batch of 50
C6_Witness ==
    /\ pc = "done"
    /\ Len(all_track_uris) = 150
    /\ Len(AddCalls) = 2
    /\ Len(AddCalls[1].args.items) = 100
    /\ Len(AddCalls[2].args.items) = 50

\* C7: after each batch, added_count + len(failed_tracks) is the number of
\* URIs in the batches processed so far; failed_tracks holds the URIs of the
\* failed batches and none of a successful one; when the loop is over the
\* sum is len(all_track_uris).
C7_AddedPlusFailed ==
    /\ added_count + Len(failed_tracks) = Len(ItemsOf(AddCalls))
    /\ failed_tracks = ItemsOf(SelectSeq(sp_calls, IsFailedAdd))
    /\ \A k \in DOMAIN AddCalls :
           AddCalls[k].ok =>
               Range(AddCalls[k].args.items) \cap Range(failed_tracks) = {}
    /\ (pc = "done" => added_count + Len(failed_tracks) = Len(all_track_uris))

\* three batches, the second one failed
C7_Witness ==
    /\ pc = "done"
    /\ Len(AddCalls) = 3
    /\ AddCalls[1].ok
    /\ ~AddCalls[2].ok
    /\ AddCalls[3].ok
    /\ added_count = Len(all_track_uris) - 100
    /\ Len(failed_tracks) = 100

\* the step is a playlist_add_items call that failed
FailedAddStep ==
    /\ Len(sp_calls') = Len(sp_calls) + 1
    /\ IsFailedAdd(sp_calls'[Len(sp_calls')])

\* C8: a failing batch call neither stops the run nor is retried: once a
\* batch call was issued the function is in its batch loop or has returned;
\* when it has returned, ceil(n / 100) calls were issued, the k-th carrying
\* the k-th batch; and a failing call leaves added_count, and what
\* failed_tracks held, as they were.
C8_FailureNeitherStopsNorRetries ==
    /\ [](/\ (AddCalls # <<>> => pc \in {"add", "done"})
          /\ (pc = "done" =>
                /\ Len(AddCalls) = (Len(all_track_uris) + 99) \div 100
                /\ \A k \in DOMAIN AddCalls :
                       AddCalls[k].args.items =
                           [j \in 1..(IF 100 * k <= Len(all_track_uris)
                                      THEN 100
                                      ELSE Len(all_track_uris) - 100 * (k - 1))
                              |-> all_track_uris[100 * (k - 1) + j]]))
    /\ [][FailedAddStep =>
             /\ added_count' = added_count
             /\ SubSeq(failed_tracks', 1, Len(failed_tracks)) = failed_tracks
             /\ pc' = "add"]_vars

\* three batches were attempted although the first one failed
C8_Witness ==
    /\ pc = "done"
    /\ Len(all_track_uris) = 201
    /\ Len(AddCalls) = 3
    /\ ~AddCalls[1].ok
    /\ AddCalls[2].ok
    /\ ~AddCalls[3].ok
    /\ added_count = 100

\* C9: the resolver issues one search call per SearchRequest consumed, in
\* input order, with that request's query and limit 1; whatever a call
\* answers, the function goes on, so when the loop is over every
\* SearchRequest, the last one too, was searched for once.
C9_OneSearchPerRequest ==
    /\ Len(SearchCalls) = si
    /\ si <= Len(search_requests)
    /\ \A k \in DOMAIN SearchCalls :
           /\ SearchCalls[k].args.q = search_requests[k].search_query
           /\ SearchCalls[k].args.limit = 1
           /\ SearchCalls[k].args.type = "track"
    /\ (SearchCalls # <<>> => pc \in {"search", "add", "done"})
    /\ (pc \in {"add", "done"} => si = Len(search_requests))

\* the first of two searches raised an error, the second was still issued
C9_Witness ==
    /\ pc = "add"
    /\ Len(search_requests) = 2
    /\ Len(SearchCalls) = 2
    /\ SearchCalls[1].ret.raised
    /\ ~SearchCalls[2].ret.raised

\* the search call answered with a track that could be mapped
IsHit(c) ==
    /\ c.op = "search"
    /\ c.ok
    /\ Len(c.ret.items) >= 1
    /\ Len(c.ret.items[1].artists) >= 1

\* C10: search_results holds, in request order, one entry for each search
\* call that returned a non-empty item list whose top item could be mapped,
\* made of that item and that query, and no entry for the other calls; so it
\* is never longer than search_requests.
C10_ResultIffHit ==
    LET hits == SelectSeq(sp_calls, IsHit) IN
    /\ Len(search_results) = Len(hits)
    /\ \A k \in DOMAIN hits :
           /\ search_results[k].track_uri = hits[k].ret.items[1].uri
           /\ search_results[k].track_id = hits[k].ret.items[1].id
           /\ search_results[k].search_query = hits[k].args.q
           /\ search_results[k].method = "search"
    /\ Len(search_results) <= Len(search_requests)

\* two queries: the first had no result, the second had a hit, and the one
\* entry is the second query's
C10_Witness ==
    /\ pc = "add"
    /\ Len(SearchCalls) = 2
    /\ SearchCalls[1].ok
    /\ SearchCalls[1].ret.items = <<>>
    /\ IsHit(SearchCalls[2])
    /\ Len(search_results) = 1
    /\ search_results[1].search_query = search_requests[2].search_query

-----------------------------------------------------------------------------
(* Order of the Spotify calls.                                             *)

IsCreate(c) == c.op = "user_playlist_create"
CreateCalls == SelectSeq(sp_calls, IsCreate)

\* the search loop has been entered
PastCreate == pc \in {"search", "add", "done"}

\* C17: create_spotify_playlist creates the playlist at most once, exactly
\* once by the time the search loop is entered, and before every search
\* call; it has issued one search per SearchRequest before its first
\* batch-add call, and no search call follows a batch-add call; and with no
\* DirectRequest and no search that yields a SearchResult the playlist is
\* created all the same, the assembled sequence is empty and no batch-add
\* call is issued.
C17_CreateThenSearchThenAdd ==
    /\ Len(CreateCalls) <= 1
    /\ PastCreate => Len(CreateCalls) = 1 /\ CreateCalls[1].ok
    /\ \A k \in DOMAIN sp_calls :
           IsSearch(sp_calls[k]) =>
               \E j \in 1..(k - 1) : IsCreate(sp_calls[j])
    /\ \A k \in DOMAIN sp_calls :
           IsAdd(sp_calls[k]) =>
               /\ Len(SelectSeq(SubSeq(sp_calls, 1, k - 1), IsSearch))
                      = Len(search_requests)
               /\ \A j \in (k + 1)..Len(sp_calls) : ~IsSearch(sp_calls[j])
    /\ (pc = "done" /\ song_requests = <<>> /\ search_results = <<>>) =>
           /\ Len(CreateCalls) = 1
           /\ all_track_uris = <<>>
           /\ AddCalls = <<>>

\* a finished call with no DirectRequest and two searches, one that raised
\* and one without result: the playlist exists and nothing was added
C17_Witness ==
    /\ pc = "done"
    /\ song_requests = <<>>
    /\ Len(SearchCalls) = 2
    /\ ~SearchCalls[1].ok
    /\ SearchCalls[2].ok /\ SearchCalls[2].ret.items = <<>>
    /\ Len(CreateCalls) = 1
    /\ AddCalls = <<>>

-----------------------------------------------------------------------------
(* The summary.                                                            *)

NoDup(xs) == \A i, j \in DOMAIN xs : i # j => xs[i] # xs[j]

\* C18: the summary's direct count is len(song_requests) and its search
\* count is len(search_results), both taken before deduplication; its added
\* and failed counts are added_count and len(failed_tracks); added plus
\* failed never exceeds direct plus search, and equals it exactly when no
\* URI occurs twice among the direct and the search-derived URIs.
C18_SummaryCounts ==
    pc = "done" =>
        /\ summary.direct = Len(song_requests)
        /\ summary.search = Len(search_results)
        /\ summary.added = added_count
        /\ summary.failed = Len(failed_tracks)
        /\ summary.added + summary.failed <= summary.direct + summary.search
        /\ (summary.added + summary.failed = summary.direct + summary.search)
               <=> NoDup(track_uris \o search_track_uris)

\* a summary whose counts add up to more than was added or failed: a
\* direct URI that a search found again
C18_Witness ==
    /\ pc = "done"
    /\ summary.direct >= 1
    /\ summary.search >= 1
    /\ ~NoDup(track_uris \o search_track_uris)
    /\ summary.added + summary.failed < summary.direct + summary.search

-----------------------------------------------------------------------------
(* The callback handler.                                                   *)

\* the request is the redirect of this flow after consent
ValidRequest(req) == ~req.error /\ req.state = FlowState /\ Truthy(req.code)

\* a step in which the server handles a request
CallbackStep == Len(callbacks') = Len(callbacks) + 1

\* C13: a callback request whose state differs from the flow's state is
\* answered 400, leaves auth_code, access_token and refresh_token (the whole
\* object) unchanged and starts no token exchange; only requests with the
\* flow's state and a code have an exchange in flight; and access_token
\* changes only in a step that ends the exchange of such a request with a
\* 200, whatever order valid, error and forged requests arrive in.
C13_StateMismatchRejected ==
    /\ [](\A k \in DOMAIN inflight :
             /\ ValidRequest(callbacks[inflight[k].cb].req)
             /\ inflight[k].code = callbacks[inflight[k].cb].req.code)
    /\ [](Truthy(oauth.access_token) =>
             \E i \in DOMAIN callbacks :
                 ValidRequest(callbacks[i].req) /\ callbacks[i].status = 200)
    /\ [][CallbackStep =>
             LET e == callbacks'[Len(callbacks')] IN
             e.req.state # oauth.state =>
                 /\ e.status = 400
                 /\ oauth' = oauth
                 /\ inflight' = inflight
                 /\ tw_calls' = tw_calls]_vars
    /\ [][oauth'.access_token # oauth.access_token =>
             \E k \in DOMAIN inflight :
                 /\ ValidRequest(callbacks[inflight[k].cb].req)
                 /\ callbacks[inflight[k].cb].status = 0
                 /\ callbacks'[inflight[k].cb].status = 200
                 /\ Len(inflight') = Len(inflight) - 1]_vars

\* during the wait a forged request was turned away, and the exchange of
\* the valid request set the token
C13_Witness ==
    /\ Len(callbacks) = 2
    /\ ValidRequest(callbacks[1].req)
    /\ callbacks[1].status = 200
    /\ callbacks[2].req.state = OtherState
    /\ ~callbacks[2].req.error
    /\ callbacks[2].status = 400
    /\ callbacks[2].at = "oauth_wait"
    /\ Truthy(oauth.access_token)
    /\ oauth.auth_code = AuthCode
    /\ Len(tw_calls) = 1

-----------------------------------------------------------------------------
(* The wait loop and the return of start_oauth_flow.                       *)

FlowOver == pc \in {"auth_gate", "crashed"}

\* an exchange ended with a 200 while the flow stood at the place `at`
Got200(at) ==
    \E i \in DOMAIN callbacks :
        callbacks[i].status = 200 /\ callbacks[i].at = at

\* C14 as stated: start_oauth_flow has returned with the server cleaned up;
\* it returned False when no callback produced a token within the window
\* of the wait loop (here: when no exchange ended with a 200 during the
\* wait, the least such case), and True exactly when access_token is set at
\* the final check.
C14_FalseWithoutTokenInWindow ==
    pc = "auth_gate" =>
        /\ oauth.runner = "cleaned"
        /\ (~Got200("oauth_wait") => success = FALSE)
        /\ (success <=> Truthy(oauth.access_token))

\* C14, amended: start_oauth_flow always ends; the wait loop sleeps at most
\* 120 times and is left after the first sleep at whose end access_token is
\* set, or after the 120th; whenever the flow returns the server is cleaned
\* up and no handler is left suspended; it returns True exactly when
\* access_token is set at the final check, which comes after the cleanup,
\* and so returns False when no exchange ended with a 200 before that check,
\* during the wait or during the cleanup.
C14_FlowTerminates ==
    /\ <>FlowOver
    /\ [](ticks <= timeout)
    /\ [][ticks' = ticks + 1 =>
             /\ pc = "oauth_wait"
             /\ pc' = IF Truthy(oauth.access_token) \/ ticks' = timeout
                       THEN "oauth_cleanup" ELSE "oauth_wait"]_vars
    /\ [][(pc = "oauth_wait" /\ pc' = "oauth_cleanup") =>
             ticks' = ticks + 1]_vars
    /\ [](pc = "auth_gate" =>
             /\ oauth.runner = "cleaned"
             /\ inflight = <<>>
             /\ (success <=> Truthy(oauth.access_token))
             /\ (~Got200("oauth_wait") /\ ~Got200("oauth_cleanup")
                    => success = FALSE))

\* the flow returned True although the only exchange ended while the server
\* was being cleaned up, after the wait loop
C14_Witness ==
    /\ pc = "auth_gate"
    /\ success
    /\ Len(callbacks) = 1
    /\ callbacks[1].at = "oauth_cleanup"
    /\ callbacks[1].status = 200
    /\ ~Got200("oauth_wait")

-----------------------------------------------------------------------------
(* Paging.                                                                 *)

\* the requests for redemptions, in call order
PageCalls == SelectSeq(tw_calls, IsRedemptions)

\* the place of a status in the list of statuses
StatusIndex(st) == CHOOSE i \in DOMAIN statuses : statuses[i] = st

\* get_reward_redemptions has returned
Fetched == song_reward # NoReward /\ pc # "fetch"

-----------------------------------------------------------------------------
(* The choice of the reward.                                               *)

\* the two strings are equal once case is ignored
EqualIgnoringCase(a, b) ==
    /\ Len(a) = Len(b)
    /\ \A i \in DOMAIN a : LowerChar(a[i]) = LowerChar(b[i])

IsRewards(c) == c.op = "rewards"

\* get_custom_rewards has returned
RewardsKnown == SelectSeq(tw_calls, IsRewards) # <<>>

\* C16: once the rewards are known, the chosen reward is the first of the
\* list whose title equals 'song request bot' when case is ignored, so a
\* reward whose title only contains the name is never chosen; when no title
\* matches, no reward is chosen, no redemptions are requested, and the
\* function has returned two empty lists.
C16_FirstExactTitle ==
    LET matches == {i \in DOMAIN rewards :
                       EqualIgnoringCase(rewards[i].title, REWARD_NAME)} IN
    /\ ~RewardsKnown => song_reward = NoReward /\ PageCalls = <<>>
    /\ (RewardsKnown /\ matches # {}) =>
           \E i \in matches :
               /\ \A j \in matches : i <= j
               /\ song_reward = rewards[i]
               /\ Len(song_reward.title) = Len(REWARD_NAME)
    /\ (RewardsKnown /\ matches = {}) =>
           /\ song_reward = NoReward
           /\ PageCalls = <<>>
           /\ pc \in {"main", "no_requests"}
           /\ redemptions = <<>>
           /\ song_requests = <<>>
           /\ search_requests = <<>>

\* the first reward's title only contains the name, the second is the name
\* in other case: the second is chosen and its redemptions are requested
C16_Witness ==
    /\ Len(rewards) = 2
    /\ Contains(rewards[1].title, REWARD_NAME)
    /\ rewards[1].title # REWARD_NAME
    /\ rewards[2].title # REWARD_NAME
    /\ song_reward = rewards[2]
    /\ PageCalls # <<>>
    /\ PageCalls[1].args.reward_id = rewards[2].id

-----------------------------------------------------------------------------
(* main's exits.                                                           *)

IsUsers(c) == c.op = "users"
UserCalls == SelectSeq(tw_calls, IsUsers)

\* create_spotify_playlist has been called
InPlaylist == pc \in {"sp_auth", "create", "search", "add", "done"}

\* C11: create_spotify_playlist is called, and so a Spotify call issued,
\* only after a classification that left a DirectRequest or a
\* SearchRequest; a run with an empty channel name ends before any request
\* to Twitch, and a run in which the broadcaster or the reward was not
\* found, or both lists came out empty, issues no Spotify call (no user
\* lookup, create, search or batch-add) and ends in main's "no valid song
\* requests" exit.
C11_PlaylistOnlyWithRequests ==
    /\ (InPlaylist \/ sp_calls # <<>>) =>
           /\ song_requests # <<>> \/ search_requests # <<>>
           /\ Fetched
           /\ ri = Len(redemptions)
           /\ Len(song_requests) + Len(search_requests) <= Len(redemptions)
    /\ (pc # "prompt" /\ broadcaster_login = <<>>) =>
           /\ pc = "no_channel"
           /\ oauth.runner = "none"
           /\ tw_calls = <<>>
           /\ sp_calls = <<>>
    /\ (UserCalls # <<>> /\ UserCalls[1].ret = <<>>) =>
           /\ pc \in {"main", "no_requests"}
           /\ ~RewardsKnown
           /\ sp_calls = <<>>
    /\ (RewardsKnown /\ song_reward = NoReward) =>
           /\ pc \in {"main", "no_requests"}
           /\ sp_calls = <<>>
    /\ (song_requests = <<>> /\ search_requests = <<>>) =>
           /\ ~InPlaylist
           /\ sp_calls = <<>>

\* a run that fetched one record, discarded it, and left through main's
\* check of the two lists without a Spotify call
C11_Witness ==
    /\ pc = "no_requests"
    /\ Len(redemptions) = 1
    /\ ri = 1
    /\ Len(skipped) = 1
    /\ song_requests = <<>>
    /\ search_requests = <<>>
    /\ sp_calls = <<>>

-----------------------------------------------------------------------------
(* Authorization failure.                                                  *)

\* some callback reported an error or carried another state than the flow's
FailedCallback ==
    \E i \in DOMAIN callbacks :
        callbacks[i].req.error \/ callbacks[i].req.state # FlowState

\* the wait loop ended without a callback
NoCallbackInWindow ==
    /\ pc \notin {"prompt", "no_channel", "oauth_start", "oauth_wait"}
    /\ \A i \in DOMAIN callbacks : callbacks[i].at # "oauth_wait"

\* C12 as stated: in every run in which a callback reports an error, or a
\* callback carries a different state, or no callback arrives within the
\* window, no redemptions are fetched and no playlist is created.
C12_AnyFailedCallbackIsFatal ==
    (FailedCallback \/ NoCallbackInWindow) =>
        /\ PageCalls = <<>>
        /\ sp_calls = <<>>

\* the exchange of a request with the flow's state and a code ended with 200
Authorized ==
    \E i \in DOMAIN callbacks :
        ValidRequest(callbacks[i].req) /\ callbacks[i].status = 200

\* C12, amended: as long as start_oauth_flow has not returned True, which
\* includes every run in which it returns False, the only requests to
\* Twitch are token exchanges: no broadcaster, reward or redemption is
\* fetched, no record is held, and no Spotify call is issued; and it
\* returns False in every run in which no callback with the flow's state
\* and a code had its exchange succeed: runs in which each callback
\* reports an error or carries another state, and runs without callback.
\* An error or a mismatch in one callback is not fatal when another
\* callback of the same flow is valid.
C12_FailedFlowIsFatal ==
    /\ ~success =>
           /\ \A k \in DOMAIN tw_calls : tw_calls[k].op = "token"
           /\ redemptions = <<>>
           /\ sp_calls = <<>>
           /\ ~InPlaylist
    /\ ~Authorized => ~success
    /\ (pc \in {"main", "no_requests"} /\ ~success) =>
           song_requests = <<>> /\ search_requests = <<>>

\* a run that ended after a denial and a forged callback: the flow
\* returned False and nothing was fetched
C12_Witness ==
    /\ pc = "no_requests"
    /\ ~success
    /\ Len(callbacks) = 2
    /\ callbacks[1].req.error
    /\ callbacks[1].req.state = FlowState
    /\ callbacks[2].req.state = OtherState
    /\ ~callbacks[2].req.error
    /\ tw_calls = <<>>
    /\ sp_calls = <<>>

====
